---- MODULE Spec2Model ----
(***************************************************************************)
(* Model of the criteria cache of server.js (CacheManager, getResults) and *)
(* of the batch harvester of cache-system.js (DataCachingSystem).          *)
(*                                                                         *)
(* JavaScript values are records [t, n, s]: t is the type tag, n the       *)
(* numeric payload and s the characters of a string.  A finite number is   *)
(* kept in fixed point with one decimal place: n is the number of tenths   *)
(* (Whole(25) is 25, Tenths(1705) is 170.5).  A string is the sequence of  *)
(* its characters, so that parsing and formatting are computed.            *)
(***************************************************************************)
EXTENDS Integers, Sequences, FiniteSets, TLC

VARIABLES
    \* SpecSpace: generateAllCombinations applied to configured grids
    grids,         \* this.parameterRanges: the seven value grids as configured
    generated,     \* whether generateAllCombinations() was called, and what it returned
    \* SpecNorm: the pure functions applied to request bodies
    criteria,      \* the raw criteria object handed to the CacheManager
    variant,       \* a second raw criteria object (another request body)
    normalized,    \* getNormalizedCriteria(criteria), or NoResult
    renormalized,  \* getNormalizedCriteria of the normalized object, or NoResult
    cacheKey,      \* generateKey(criteria), or NoResult
    variantKey,    \* generateKey(variant), or NoResult
    urlParams,     \* what scrapeResults(criteria) puts in the query string, or NoResult
    phase,         \* "input", "normalized", "renormalized", "keyed", "respelled",
                   \* "altered", "requested"; "off" in the other specifications
    \* Spec: the on-demand service (server.js)
    cache,         \* CacheManager.cache: the Map from key to cache entry
    cacheFile,     \* cache/scraped_data.json
    req,           \* the getResults calls: position, criteria, returned envelope and
                   \* the retryCount of scrapeResults
    \* SpecBatch: the harvester (cache-system.js)
    progressFile,  \* cache/progress.json
    resultsFile,   \* cache/results.json
    errorLogFile,  \* cache/errors.json
    pc,            \* position of startCaching; "stopped" when no process runs
    run,           \* the locals of startCaching and scrapeWithRetry
    runs,          \* number of times startCaching has been invoked
    unthrottled,   \* history: an extractor attempt of this run has ended and no delay
                   \* has elapsed since
    fetched,       \* history: the ids of the combinations whose latest finished call
                   \* of scrapeWithRetry, in any run, returned a result
    \* the environment
    now,           \* the clock: each new Date() of the on-demand service reads a later
                   \* time; the harvester's timestamps are not told apart
    ioFaults       \* file operations the environment may still make fail

spaceVars == <<grids, generated>>
normVars == <<criteria, variant, normalized, renormalized, cacheKey, variantKey, urlParams,
              phase>>
cacheVars == <<cache, cacheFile, req>>
batchVars == <<progressFile, resultsFile, errorLogFile, pc, run, runs, fetched, unthrottled>>
envVars == <<now, ioFaults>>
vars == <<spaceVars, normVars, cacheVars, batchVars, envVars>>

\* bounds of the model
MaxRequests == 2
MaxIOFaults == 1
MaxRuns == 2
MaxGrid == 2

-----------------------------------------------------------------------------
(* JavaScript values *)

Undefined == [t |-> "undefined", n |-> 0, s |-> <<>>]
Null == [t |-> "null", n |-> 0, s |-> <<>>]
NaN == [t |-> "NaN", n |-> 0, s |-> <<>>]
Fn == [t |-> "function", n |-> 0, s |-> <<>>]
Bool(b) == [t |-> "boolean", n |-> IF b THEN 1 ELSE 0, s |-> <<>>]
Tenths(x) == [t |-> "number", n |-> x, s |-> <<>>]
Whole(i) == Tenths(10 * i)
Infinity(sign) == [t |-> "Infinity", n |-> sign, s |-> <<>>]
Str(chars) == [t |-> "string", n |-> 0, s |-> chars]

NoResult == "none"

Digits == <<"0", "1", "2", "3", "4", "5", "6", "7", "8", "9">>
IsDigit(c) == \E i \in 1..10 : Digits[i] = c
DigitVal(c) == (CHOOSE i \in 1..10 : Digits[i] = c) - 1

LowerLetters == <<"a", "b", "c", "d", "e", "f", "g", "h", "i", "j", "k", "l", "m",
                  "n", "o", "p", "q", "r", "s", "t", "u", "v", "w", "x", "y", "z">>
UpperLetters == <<"A", "B", "C", "D", "E", "F", "G", "H", "I", "J", "K", "L", "M",
                  "N", "O", "P", "Q", "R", "S", "T", "U", "V", "W", "X", "Y", "Z">>

\* String.prototype.toUpperCase / toLowerCase on one character
UpperChar(c) ==
    IF \E i \in 1..26 : LowerLetters[i] = c
    THEN UpperLetters[CHOOSE i \in 1..26 : LowerLetters[i] = c]
    ELSE c
LowerChar(c) ==
    IF \E i \in 1..26 : UpperLetters[i] = c
    THEN LowerLetters[CHOOSE i \in 1..26 : UpperLetters[i] = c]
    ELSE c
toLowerCase(chars) == [i \in 1..Len(chars) |-> LowerChar(chars[i])]

\* the string literals of the program and of the sample requests
sAny == <<"a", "n", "y">>
sWhite == <<"w", "h", "i", "t", "e">>
sBlack == <<"b", "l", "a", "c", "k">>
sAsian == <<"a", "s", "i", "a", "n">>
sTrue == <<"t", "r", "u", "e">>
sFalse == <<"f", "a", "l", "s", "e">>
sNull == <<"n", "u", "l", "l">>
sUndefined == <<"u", "n", "d", "e", "f", "i", "n", "e", "d">>
sNaN == <<"N", "a", "N">>
sInfinity == <<"I", "n", "f", "i", "n", "i", "t", "y">>
sConstructor == <<"c", "o", "n", "s", "t", "r", "u", "c", "t", "o", "r">>
sValueOf == <<"v", "a", "l", "u", "e", "O", "f">>
sFunction == <<"f", "u", "n", "c", "t", "i", "o", "n", " ", "O", "b", "j", "e", "c", "t",
               "(", ")", " ", "{", " ", "}">>

RECURSIVE NatToChars(_)
\* the decimal digits of a natural number
NatToChars(k) ==
    IF k < 10 THEN <<Digits[k + 1]>>
    ELSE NatToChars(k \div 10) \o <<Digits[(k % 10) + 1]>>

\* Number.prototype.toString of a finite number held in tenths
NumToChars(x) ==
    LET a == IF x < 0 THEN -x ELSE x
        whole == NatToChars(a \div 10)
        frac == IF a % 10 = 0 THEN <<>> ELSE <<".", Digits[(a % 10) + 1]>>
    IN (IF x < 0 THEN <<"-">> ELSE <<>>) \o whole \o frac

\* value.toString() / ToString(value), the conversion parseInt, parseFloat and property lookup apply
toString(v) ==
    CASE v.t = "string" -> v.s
      [] v.t = "number" -> NumToChars(v.n)
      [] v.t = "boolean" -> IF v.n = 1 THEN sTrue ELSE sFalse
      [] v.t = "undefined" -> sUndefined
      [] v.t = "null" -> sNull
      [] v.t = "NaN" -> sNaN
      [] v.t = "Infinity" -> (IF v.n < 0 THEN <<"-">> ELSE <<>>) \o sInfinity
      [] v.t = "function" -> sFunction

\* ToBoolean(value)
Truthy(v) ==
    CASE v.t = "string" -> Len(v.s) > 0
      [] v.t = "number" -> v.n # 0
      [] v.t = "boolean" -> v.n = 1
      [] v.t = "Infinity" -> TRUE
      [] v.t = "function" -> TRUE
      [] OTHER -> FALSE

\* a || b
Or(a, b) == IF Truthy(a) THEN a ELSE b

RECURSIVE SkipWhite(_, _)
\* index of the first character at or after i that is not white space
SkipWhite(chars, i) ==
    IF i <= Len(chars) /\ chars[i] = " " THEN SkipWhite(chars, i + 1) ELSE i

RECURSIVE DigitRun(_, _)
\* number of consecutive decimal digits starting at index i
DigitRun(chars, i) ==
    IF i <= Len(chars) /\ IsDigit(chars[i]) THEN 1 + DigitRun(chars, i + 1) ELSE 0

RECURSIVE DigitsValue(_, _, _)
\* the natural number written by the k digits starting at index i
DigitsValue(chars, i, k) ==
    IF k = 0 THEN 0
    ELSE 10 * DigitsValue(chars, i, k - 1) + DigitVal(chars[i + k - 1])

HasPrefixAt(chars, i, word) ==
    /\ i + Len(word) - 1 <= Len(chars)
    /\ \A j \in 1..Len(word) : chars[i + j - 1] = word[j]

\* parseInt(value) with the default radix.  Hexadecimal prefixes are outside the
\* alphabet of the sample requests; -0 is held as 0.
parseInt(v) ==
    LET chars == toString(v)
        i0 == SkipWhite(chars, 1)
        signed == i0 <= Len(chars) /\ chars[i0] \in {"-", "+"}
        neg == signed /\ chars[i0] = "-"
        i1 == IF signed THEN i0 + 1 ELSE i0
        k == DigitRun(chars, i1)
        val == DigitsValue(chars, i1, k)
    IN IF k = 0 THEN NaN ELSE Whole(IF neg THEN -val ELSE val)

\* parseFloat(value).  Fraction digits beyond the first are dropped (the
\* resolution of the number model); exponents are outside the sample alphabet.
parseFloat(v) ==
    LET chars == toString(v)
        i0 == SkipWhite(chars, 1)
        signed == i0 <= Len(chars) /\ chars[i0] \in {"-", "+"}
        neg == signed /\ chars[i0] = "-"
        i1 == IF signed THEN i0 + 1 ELSE i0
        k == DigitRun(chars, i1)
        dot == i1 + k <= Len(chars) /\ chars[i1 + k] = "."
        m == IF dot THEN DigitRun(chars, i1 + k + 1) ELSE 0
        val == 10 * DigitsValue(chars, i1, k)
               + (IF m > 0 THEN DigitVal(chars[i1 + k + 1]) ELSE 0)
    IN IF HasPrefixAt(chars, i1, sInfinity) THEN Infinity(IF neg THEN -1 ELSE 1)
       ELSE IF k = 0 /\ m = 0 THEN NaN
       ELSE Tenths(IF neg THEN -val ELSE val)

-----------------------------------------------------------------------------
(* CacheManager: normalisation and key generation (server.js) *)

RawFields == {"minAge", "maxAge", "excludeMarried", "race", "height", "minHeight",
              "excludeObese", "income", "minIncome"}

\* an object read as a criteria object: a property it lacks reads as undefined
AsCriteria(obj) == [f \in RawFields |-> IF f \in DOMAIN obj THEN obj[f] ELSE Undefined]

\* properties every object literal inherits from Object.prototype (a sample)
ObjectPrototypeKeys == {sConstructor, sValueOf}

\* raceMapping[key]: the own properties of the literal, then the inherited ones
raceMapping(key) ==
    CASE key = sAny \/ key = <<"0">> -> Whole(0)
      [] key = sWhite \/ key = <<"1">> -> Whole(1)
      [] key = sBlack \/ key = <<"2">> -> Whole(2)
      [] key = sAsian \/ key = <<"3">> -> Whole(3)
      [] key \in ObjectPrototypeKeys -> Fn
      [] OTHER -> Undefined

\* race?.toString(): undefined for null and undefined, which then reads the
\* property named "undefined"
RaceKey(race) ==
    IF race.t \in {"undefined", "null"} THEN sUndefined ELSE toString(race)

normalizeRace(race) ==
    IF raceMapping(RaceKey(race)) # Undefined THEN raceMapping(RaceKey(race)) ELSE Whole(0)

normalizeHeight(height) ==
    IF ~Truthy(height) \/ height = Str(sAny) \/ height = Whole(0)
    THEN Whole(0)
    ELSE Or(parseFloat(height), Whole(0))

getNormalizedCriteria(c) ==
    [ minAge |-> Or(parseInt(c.minAge), Whole(25)),
      maxAge |-> Or(parseInt(c.maxAge), Whole(35)),
      excludeMarried |-> Bool(Truthy(c.excludeMarried)),
      race |-> normalizeRace(c.race),
      minHeight |-> normalizeHeight(Or(c.height, c.minHeight)),
      excludeObese |-> Bool(Truthy(c.excludeObese)),
      minIncome |-> parseInt(Or(Or(c.income, c.minIncome), Whole(0))) ]

\* Object.keys(normalized).sort(): the seven keys in code-unit order
SortedKeys == <<"excludeMarried", "excludeObese", "maxAge", "minAge", "minHeight",
                "minIncome", "race">>

\* JSON.stringify of one property value
JSONValue(v) ==
    CASE v.t = "number" -> NumToChars(v.n)
      [] v.t = "boolean" -> IF v.n = 1 THEN sTrue ELSE sFalse
      [] v.t = "string" -> <<"\"">> \o v.s \o <<"\"">>
      [] OTHER -> sNull

\* JSON.stringify of an object whose keys are listed in order: a property whose
\* value is a function or undefined is left out; NaN and the infinities print null
JSONstringify(keys, obj) ==
    LET kept == SelectSeq(keys, LAMBDA k : obj[k].t \notin {"function", "undefined"})
    IN [i \in 1..Len(kept) |-> <<kept[i], JSONValue(obj[kept[i]])>>]

\* the MD5 digest, taken to be injective: the digest of a text stands for the text
md5(text) == <<"md5", text>>

generateKey(c) == md5(JSONstringify(SortedKeys, getNormalizedCriteria(c)))

-----------------------------------------------------------------------------
(* CacheManager: the Map and its backing file (server.js) *)

EmptyMap == [k \in {} |-> 0]

\* a file: whether it exists, whether its text parses as JSON, and what it holds
File(content) == [exists |-> TRUE, readable |-> TRUE, content |-> content]
NoFile(content) == [exists |-> FALSE, readable |-> FALSE, content |-> content]

\* the outcomes of a write the environment may choose from
WriteOutcomes == IF ioFaults > 0 THEN {"ok", "fails"} ELSE {"ok"}
ReadOutcomes == IF ioFaults > 0 THEN {"ok", "fails"} ELSE {"ok"}
FaultsLeft(outcome) == IF outcome = "ok" THEN ioFaults ELSE ioFaults - 1

\* fs.writeFile / fs.writeFileSync of a whole file: a write that fails throws and
\* leaves the file as it was
WriteFile(file, content, outcome) == IF outcome = "ok" THEN File(content) ELSE file

\* a timestamp field that is not set
Never == -1

NoPayload == [probability |-> "", delusionScore |-> "", delusionScoreNumber |-> ""]
NoKey == <<>>
\* the value null returned by get on a miss
Miss == [hit |-> FALSE, data |-> NoPayload, fromCache |-> FALSE, cacheKey |-> NoKey,
         cachedAt |-> Never, accessCount |-> 0]

\* CacheManager.get: the envelope built from the entry, or null
get(cch, c) ==
    LET key == generateKey(c)
    IN IF key \in DOMAIN cch
       THEN [hit |-> TRUE, data |-> cch[key].data, fromCache |-> TRUE, cacheKey |-> key,
             cachedAt |-> cch[key].timestamp, accessCount |-> cch[key].accessCount]
       ELSE Miss

\* set with the count of a new entry starting at 0: accessCount: 0
setUncounted(cch, c, data, t) ==
    LET key == generateKey(c)
        cacheEntry == [criteria |-> getNormalizedCriteria(c), data |-> data,
                       timestamp |-> t, accessCount |-> 0, lastAccessed |-> Never]
    IN [k \in DOMAIN cch \cup {key} |-> IF k = key THEN cacheEntry ELSE cch[k]]

\* set that keeps the entry a key already has: if (!this.cache.has(key)) ...
setIfAbsent(cch, c, data, t) ==
    LET key == generateKey(c)
        cacheEntry == [criteria |-> getNormalizedCriteria(c), data |-> data,
                       timestamp |-> t, accessCount |-> 1, lastAccessed |-> Never]
    IN [k \in DOMAIN cch \cup {key} |-> IF k \in DOMAIN cch THEN cch[k] ELSE cacheEntry]

\* CacheManager.set, up to the Map update: a new entry replaces whatever the key held
set(cch, c, data, t) ==
    LET key == generateKey(c)
        cacheEntry == [criteria |-> getNormalizedCriteria(c), data |-> data,
                       timestamp |-> t, accessCount |-> 1, lastAccessed |-> Never]
    IN [k \in DOMAIN cch \cup {key} |-> IF k = key THEN cacheEntry ELSE cch[k]]

\* updateAccess with the increment bound to the wrong operand,
\* cached.accessCount || (1 + 1): a count that is set stays as it is
updateAccessKeepsCount(cch, c, t) ==
    LET key == generateKey(c)
    IN IF key \in DOMAIN cch
       THEN [cch EXCEPT ![key].accessCount = IF @ = 0 THEN 2 ELSE @,
                        ![key].lastAccessed = t]
       ELSE cch

\* CacheManager.updateAccess, up to the Map update
updateAccess(cch, c, t) ==
    LET key == generateKey(c)
    IN IF key \in DOMAIN cch
       THEN [cch EXCEPT ![key].accessCount = (IF @ = 0 THEN 1 ELSE @) + 1,
                        ![key].lastAccessed = t]
       ELSE cch

\* saveToFile that returns without writing: the file keeps what it held
saveToFileSkipped(cch, file, outcome) == file

\* CacheManager.saveToFile: the whole Map is written; a failure is logged and dropped
saveToFile(cch, file, outcome) == WriteFile(file, cch, outcome)

-----------------------------------------------------------------------------
(* DataCachingSystem: the parameter space and the files (cache-system.js) *)

\* this.batchSize, scaled down from 10 so that the small space has several batches
batchSize == 2
retryAttempts == 3

\* this.parameterRanges, scaled down: each grid keeps its order
parameterRanges ==
    [ minAge |-> <<18, 20, 25>>,
      maxAge |-> <<22>>,
      excludeMarried |-> <<TRUE>>,
      race |-> <<0>>,
      minHeight |-> <<0>>,
      excludeObese |-> <<FALSE>>,
      minIncome |-> <<0, 30000>> ]

\* the seven loops nested the other way round, minIncome outermost
LoopOrderReversed == <<"minIncome", "excludeObese", "minHeight", "race", "excludeMarried",
                       "maxAge", "minAge">>

\* the nesting of the seven loops, outermost first
LoopOrder == <<"minAge", "maxAge", "excludeMarried", "race", "minHeight",
               "excludeObese", "minIncome">>

RECURSIVE IterationsFrom(_, _)
\* number of iterations of the loops nested at depth p and deeper
IterationsFrom(ranges, p) ==
    IF p > Len(LoopOrder) THEN 1
    ELSE Len(ranges[LoopOrder[p]]) * IterationsFrom(ranges, p + 1)

\* the values of the seven loop variables in the k-th innermost iteration (from 0)
LoopValues(ranges, k) ==
    [ f \in DOMAIN ranges |->
        LET p == CHOOSE q \in 1..Len(LoopOrder) : LoopOrder[q] = f
        IN ranges[f][((k \div IterationsFrom(ranges, p + 1)) % Len(ranges[f])) + 1] ]

BoolChars(b) == IF b THEN sTrue ELSE sFalse

\* the template string without the two flags
generateCombinationIdOfNumbers(params) ==
    NumToChars(10 * params.minAge) \o <<"-">> \o NumToChars(10 * params.maxAge) \o <<"-">>
    \o NumToChars(10 * params.race) \o <<"-">> \o NumToChars(10 * params.minHeight)
    \o <<"-">> \o NumToChars(10 * params.minIncome)

\* generateCombinationId: the template string of the seven values
generateCombinationId(params) ==
    NumToChars(10 * params.minAge) \o <<"-">> \o NumToChars(10 * params.maxAge) \o <<"-">>
    \o BoolChars(params.excludeMarried) \o <<"-">> \o NumToChars(10 * params.race) \o <<"-">>
    \o NumToChars(10 * params.minHeight) \o <<"-">> \o BoolChars(params.excludeObese)
    \o <<"-">> \o NumToChars(10 * params.minIncome)

\* the nested loops with the skip test weakened to minAge > maxAge
generateAllCombinationsKeepEqual(ranges) ==
    LET all == [k \in 1..IterationsFrom(ranges, 1) |-> LoopValues(ranges, k - 1)]
        kept == SelectSeq(all, LAMBDA c : ~(c.minAge > c.maxAge))
    IN [k \in 1..Len(kept) |-> [id |-> generateCombinationId(kept[k]), params |-> kept[k]]]

\* generateAllCombinations: the nested loops, skipping minAge >= maxAge
generateAllCombinations(ranges) ==
    LET all == [k \in 1..IterationsFrom(ranges, 1) |-> LoopValues(ranges, k - 1)]
        kept == SelectSeq(all, LAMBDA c : ~(c.minAge >= c.maxAge))
    IN [k \in 1..Len(kept) |-> [id |-> generateCombinationId(kept[k]), params |-> kept[k]]]

combinations == generateAllCombinations(parameterRanges)

\* the progress object initialize() writes when progress.json is absent
InitialProgress ==
    [ totalCombinations |-> 0, processed |-> 0, currentIndex |-> 0, startTime |-> Never,
      lastProcessedAt |-> Never, errors |-> 0, successes |-> 0 ]

\* loadProgress: the parsed file, or null when it cannot be read or parsed
loadProgress(file, outcome) ==
    IF file.exists /\ file.readable /\ outcome = "ok"
    THEN [isNull |-> FALSE, value |-> file.content]
    ELSE [isNull |-> TRUE, value |-> InitialProgress]

\* loadResults: the parsed file, or {} when it cannot be read or parsed
loadResults(file, outcome) ==
    IF file.exists /\ file.readable /\ outcome = "ok" THEN file.content ELSE EmptyMap

\* loadErrors: the parsed file, or [] when it cannot be read or parsed
loadErrors(file, outcome) ==
    IF file.exists /\ file.readable /\ outcome = "ok" THEN file.content ELSE <<>>

\* the retry test off by one: attempt <= this.retryAttempts
MayRetryOnceMore(attempt) == attempt <= retryAttempts

\* the retry test of scrapeWithRetry's catch block
MayRetry(attempt) == attempt < retryAttempts

\* the result scrapeWithRetry returns: the extracted fields, a timestamp and the
\* parameters
ScrapeResult(results, t, params) ==
    [ probability |-> results.probability, delusionScore |-> results.delusionScore,
      delusionScoreNumber |-> results.delusionScoreNumber, timestamp |-> t,
      parameters |-> params ]

\* the validation left out: whatever page.evaluate returned counts as a result
NoValidResultsUnchecked(results) == results # results

\* the validation of scrapeWithRetry: none of the three fields is present
NoValidResults(results) ==
    results.probability = "" /\ results.delusionScore = "" /\ results.delusionScoreNumber = ""

-----------------------------------------------------------------------------
(* Request bodies: the raw values a client may send for each field *)

\* every upper/lower-case spelling of a word
Spellings(word) ==
    { [i \in 1..Len(word) |-> IF i \in up THEN UpperChar(word[i]) ELSE word[i]] :
        up \in SUBSET (1..Len(word)) }

RaceNames == {sAny, sWhite, sBlack, sAsian}

AgeSamples ==
    { Undefined, Null, Whole(0), Whole(30), Tenths(257),
      Str(<<"3", "0">>), Str(<<"0">>), Str(<<"2", "5", ".", "7">>),
      Str(<<"a", "b", "c">>), Str(<<>>) }
FlagSamples == { Undefined, Bool(TRUE), Bool(FALSE), Str(sFalse) }
\* the race values a second request is drawn from: the names in lower and in
\* upper case only
CoreRaceSamples ==
    { Undefined, Null, Whole(0), Whole(1), Whole(2), Whole(3), Whole(7),
      Str(<<"0">>), Str(<<"1">>), Str(<<"2">>), Str(<<"3">>),
      Str(<<"p", "u", "r", "p", "l", "e">>), Str(sConstructor), Str(sValueOf) }
    \cup { Str(name) : name \in RaceNames }
    \cup { Str([i \in 1..Len(name) |-> UpperChar(name[i])]) : name \in RaceNames }
RaceSamples ==
    CoreRaceSamples \cup { Str(w) : w \in UNION { Spellings(name) : name \in RaceNames } }
HeightSamples ==
    { Undefined, Whole(0), Whole(180), Tenths(1705), Str(sAny),
      Str(<<"0">>), Str(<<"1", "8", "0">>), Str(<<"1", "7", "0", ".", "5">>),
      Str(<<"t", "a", "l", "l">>), Str(sInfinity), Str(<<"-">> \o sInfinity) }
IncomeSamples ==
    { Undefined, Whole(0), Whole(50000), Str(<<"0">>), Str(<<"5", "0", "0", "0", "0">>),
      Str(sAny), Str(<<"a", "b", "c">>) }

Samples(f) ==
    CASE f \in {"minAge", "maxAge"} -> AgeSamples
      [] f \in {"excludeMarried", "excludeObese"} -> FlagSamples
      [] f = "race" -> RaceSamples
      [] f \in {"height", "minHeight"} -> HeightSamples
      [] f \in {"income", "minIncome"} -> IncomeSamples

EmptyCriteria == [f \in RawFields |-> Undefined]

\* request bodies with one field set, and with both names of an aliased field set
SampleCriteria ==
    UNION { { [EmptyCriteria EXCEPT ![f] = v] : v \in Samples(f) } : f \in RawFields }
    \cup { [EmptyCriteria EXCEPT !["height"] = h, !["minHeight"] = m] :
             h \in HeightSamples, m \in HeightSamples }
    \cup { [EmptyCriteria EXCEPT !["income"] = a, !["minIncome"] = b] :
             a \in IncomeSamples, b \in IncomeSamples }

\* the values a second request may put in one field
AlterSamples(f) == IF f = "race" THEN CoreRaceSamples ELSE Samples(f)

\* a string that is the canonical decimal numeral of a number
IsNumeral(v) ==
    /\ v.t = "string"
    /\ parseFloat(v).t = "number"
    /\ NumToChars(parseFloat(v).n) = v.s

\* the same number written as a number or as its numeral
NumericRespellings(v) ==
    IF v.t = "number" THEN { Str(NumToChars(v.n)) }
    ELSE IF IsNumeral(v) THEN { parseFloat(v) }
    ELSE {}

\* the documented synonyms: a race name, its numeric code, the code as a string
RaceSynonyms ==
    { { Str(sAny), Whole(0), Str(<<"0">>) }, { Str(sWhite), Whole(1), Str(<<"1">>) },
      { Str(sBlack), Whole(2), Str(<<"2">>) }, { Str(sAsian), Whole(3), Str(<<"3">>) } }

\* the other surface representations of the value v of field f: race by name or
\* by code, a height of "any" or 0, a number or its numeral
Respellings(f, v) ==
    CASE f = "race" -> UNION { class \in RaceSynonyms : v \in class } \ {v}
      [] f \in {"height", "minHeight"} ->
            (NumericRespellings(v)
             \cup (IF v \in {Str(sAny), Whole(0)} THEN {Str(sAny), Whole(0)} ELSE {})) \ {v}
      [] f \in {"minAge", "maxAge", "income", "minIncome"} -> NumericRespellings(v)
      [] OTHER -> {}

-----------------------------------------------------------------------------
(* scrapeResults: the query string built from the raw criteria *)

ParamNames == {"minAge", "maxAge", "excludeMarried", "race", "minHeight", "excludeObese",
               "minIncome"}

\* typeof value === 'number'
IsNumberType(v) == v.t \in {"number", "NaN", "Infinity"}

\* Number.prototype.toFixed(2) of a number held in tenths
toFixed2(v) ==
    IF v.t # "number" THEN toString(v)
    ELSE LET a == IF v.n < 0 THEN -v.n ELSE v.n
         IN (IF v.n < 0 THEN <<"-">> ELSE <<>>)
                \o NatToChars(a \div 10) \o <<".", Digits[(a % 10) + 1], "0">>

\* let minHeight: read from criteria.height only
scrapeMinHeight(c) ==
    IF Truthy(c.height) /\ c.height # Str(sAny) /\ c.height # Whole(0)
    THEN IF IsNumberType(c.height) \/ parseFloat(c.height) # NaN
         THEN parseFloat(c.height)
         ELSE Whole(0)
    ELSE Whole(0)

\* let minIncome: criteria.income, else criteria.minIncome
scrapeMinIncome(c) ==
    IF Truthy(c.income) /\ c.income # Str(sAny)
    THEN Or(parseInt(c.income), Whole(0))
    ELSE IF Truthy(c.minIncome) /\ c.minIncome # Str(sAny)
         THEN Or(parseInt(c.minIncome), Whole(0))
         ELSE Whole(0)

\* let race: criteria.race.toString() looked up in raceMapping
scrapeRace(c) ==
    IF c.race = Undefined THEN Whole(0)
    ELSE IF raceMapping(toString(c.race)) # Undefined
         THEN raceMapping(toString(c.race))
         ELSE Whole(0)

\* the URLSearchParams of scrapeResults(c): every value appended as its string;
\* criteria.race.toString() throws a TypeError when race is null
scrapeParams(c) ==
    IF c.race = Null
    THEN [threw |-> TRUE, params |-> [f \in ParamNames |-> <<>>]]
    ELSE [threw |-> FALSE,
          params |->
            [ minAge |-> toString(Or(c.minAge, Whole(25))),
              maxAge |-> toString(Or(c.maxAge, Whole(35))),
              excludeMarried |-> IF Truthy(c.excludeMarried) THEN sTrue ELSE sFalse,
              race |-> toString(scrapeRace(c)),
              minHeight |-> toFixed2(scrapeMinHeight(c)),
              excludeObese |-> IF Truthy(c.excludeObese) THEN sTrue ELSE sFalse,
              minIncome |-> toString(scrapeMinIncome(c)) ]]

-----------------------------------------------------------------------------
(* SpecNorm: the pure functions of the CacheManager applied to request bodies *)

InitNorm ==
    /\ criteria \in SampleCriteria
    /\ variant = criteria
    /\ normalized = NoResult
    /\ renormalized = NoResult
    /\ cacheKey = NoResult
    /\ variantKey = NoResult
    /\ urlParams = NoResult
    /\ phase = "input"

NormOff ==
    /\ criteria = EmptyCriteria
    /\ variant = EmptyCriteria
    /\ normalized = NoResult
    /\ renormalized = NoResult
    /\ cacheKey = NoResult
    /\ variantKey = NoResult
    /\ urlParams = NoResult
    /\ phase = "off"

\* normalized = getNormalizedCriteria(criteria)
Normalize ==
    /\ phase = "input"
    /\ normalized' = getNormalizedCriteria(criteria)
    /\ phase' = "normalized"
    /\ UNCHANGED <<criteria, variant, renormalized, cacheKey, variantKey, urlParams>>
    /\ UNCHANGED <<spaceVars, cacheVars, batchVars, envVars>>

\* the normalized object is itself handed to getNormalizedCriteria
Renormalize ==
    /\ phase = "normalized"
    /\ renormalized' = getNormalizedCriteria(AsCriteria(normalized))
    /\ phase' = "renormalized"
    /\ UNCHANGED <<criteria, variant, normalized, cacheKey, variantKey, urlParams>>
    /\ UNCHANGED <<spaceVars, cacheVars, batchVars, envVars>>

\* cacheKey = generateKey(criteria)
GenerateKey ==
    /\ phase = "renormalized"
    /\ cacheKey' = generateKey(criteria)
    /\ variantKey' = generateKey(variant)
    /\ phase' = "keyed"
    /\ UNCHANGED <<criteria, variant, normalized, renormalized, urlParams>>
    /\ UNCHANGED <<spaceVars, cacheVars, batchVars, envVars>>

\* a second request writes one field of the first in another representation
Respell(f, v) ==
    /\ phase \in {"keyed", "respelled"}
    /\ v \in Respellings(f, variant[f])
    /\ variant' = [variant EXCEPT ![f] = v]
    /\ variantKey' = generateKey(variant')
    /\ phase' = "respelled"
    /\ UNCHANGED <<criteria, normalized, renormalized, cacheKey, urlParams>>
    /\ UNCHANGED <<spaceVars, cacheVars, batchVars, envVars>>

\* a second request differs from the first in the value of one field
Alter(f, v) ==
    /\ phase = "keyed"
    /\ v # criteria[f]
    /\ variant' = [criteria EXCEPT ![f] = v]
    /\ variantKey' = generateKey(variant')
    /\ phase' = "altered"
    /\ UNCHANGED <<criteria, normalized, renormalized, cacheKey, urlParams>>
    /\ UNCHANGED <<spaceVars, cacheVars, batchVars, envVars>>

\* the same request body reaches scrapeResults, which builds the query string
BuildParams ==
    /\ phase = "normalized"
    /\ urlParams' = scrapeParams(criteria)
    /\ phase' = "requested"
    /\ UNCHANGED <<criteria, variant, normalized, renormalized, cacheKey, variantKey>>
    /\ UNCHANGED <<spaceVars, cacheVars, batchVars, envVars>>

NextNorm ==
    \/ Normalize
    \/ Renormalize
    \/ BuildParams
    \/ GenerateKey
    \/ \E f \in RawFields : \E v \in Samples(f) : Respell(f, v)
    \/ \E f \in RawFields : \E v \in AlterSamples(f) : Alter(f, v)



-----------------------------------------------------------------------------
(* Spec: the on-demand path, getResults over the CacheManager (server.js) *)

Requests == 1..MaxRequests

PayloadA == [probability |-> "4.2%", delusionScore |-> "Picky", delusionScoreNumber |-> "3/5"]
PayloadB == [probability |-> "0.3%", delusionScore |-> "Delusional", delusionScoreNumber |-> "4/5"]
Payloads == {PayloadA, PayloadB}

\* the request bodies of the on-demand model: two spellings of one criteria set
\* and a different criteria set
ReqWhiteName == [EmptyCriteria EXCEPT !["race"] = Str(sWhite)]
ReqWhiteCode == [EmptyCriteria EXCEPT !["race"] = Whole(1)]
ReqAge30 == [EmptyCriteria EXCEPT !["minAge"] = Whole(30)]
RequestSamples == {ReqWhiteName, ReqWhiteCode, ReqAge30}

IdleRequest == [pc |-> "idle", criteria |-> EmptyCriteria, result |-> Miss, retryCount |-> 0]

CacheOff ==
    /\ cache = EmptyMap
    /\ cacheFile = NoFile(EmptyMap)
    /\ req = [r \in Requests |-> IdleRequest]

\* a request is between get and updateAccess, which run without an await between
\* them: no other handler runs until it has finished
InSyncSection == \E r \in Requests : req[r].pc = "hit"

\* a lookup that counts the access itself: get followed at once by updateAccess
GetCounting(r, c) ==
    /\ ~InSyncSection
    /\ req[r].pc = "idle"
    /\ r > 1 => req[r - 1].pc # "idle"
    /\ LET cachedResult == get(cache, c)
       IN req' = [req EXCEPT ![r] = [pc |-> IF cachedResult.hit THEN "hit" ELSE "scraping",
                                     criteria |-> c, result |-> cachedResult,
                                     retryCount |-> 0]]
    /\ cache' = updateAccess(cache, c, now)
    /\ UNCHANGED cacheFile
    /\ UNCHANGED <<spaceVars, normVars, batchVars, envVars>>

\* a lookup after which scrapeResults is called whatever get returned
GetAlwaysScraping(r, c) ==
    /\ ~InSyncSection
    /\ req[r].pc = "idle"
    /\ r > 1 => req[r - 1].pc # "idle"
    /\ req' = [req EXCEPT ![r] = [pc |-> "scraping", criteria |-> c,
                                  result |-> get(cache, c), retryCount |-> 0]]
    /\ UNCHANGED <<cache, cacheFile>>
    /\ UNCHANGED <<spaceVars, normVars, batchVars, envVars>>

\* getResults, first half: cacheManager.get(criteria); on a miss scrapeResults is
\* called and the request waits for it
Get(r, c) ==
    /\ ~InSyncSection
    /\ req[r].pc = "idle"
    /\ r > 1 => req[r - 1].pc # "idle"
    /\ LET cachedResult == get(cache, c)
       IN req' = [req EXCEPT ![r] = [pc |-> IF cachedResult.hit THEN "hit" ELSE "scraping",
                                     criteria |-> c, result |-> cachedResult,
                                     retryCount |-> 0]]
    /\ UNCHANGED <<cache, cacheFile>>
    /\ UNCHANGED <<spaceVars, normVars, batchVars, envVars>>

\* getResults on a hit: cacheManager.updateAccess(criteria), then the envelope that
\* get built is returned
UpdateAccess(r) ==
    /\ req[r].pc = "hit"
    /\ \E outcome \in WriteOutcomes :
          /\ cache' = updateAccess(cache, req[r].criteria, now)
          /\ cacheFile' = saveToFile(cache', cacheFile, outcome)
          /\ ioFaults' = FaultsLeft(outcome)
    /\ now' = now + 1
    /\ req' = [req EXCEPT ![r].pc = "done"]
    /\ UNCHANGED <<spaceVars, normVars, batchVars>>

\* getResults on a miss, scrapeResults returned results: cacheManager.set(criteria,
\* results) and the envelope {...results, fromCache: false, cacheKey}
ScrapeSucceeds(r, results) ==
    /\ ~InSyncSection
    /\ req[r].pc = "scraping"
    /\ \E outcome \in WriteOutcomes :
          /\ cache' = set(cache, req[r].criteria, results, now)
          /\ cacheFile' = saveToFile(cache', cacheFile, outcome)
          /\ ioFaults' = FaultsLeft(outcome)
    /\ now' = now + 1
    /\ req' = [req EXCEPT ![r].pc = "done",
                          ![r].result = [Miss EXCEPT !.data = results,
                                                     !.cacheKey = generateKey(req[r].criteria)]]
    /\ UNCHANGED <<spaceVars, normVars, batchVars>>

\* a failed fetch that leaves an entry without payload under the request's key
ScrapeFailsStoring(r) ==
    /\ ~InSyncSection
    /\ req[r].pc = "scraping"
    /\ req' = [req EXCEPT ![r].pc = "failed"]
    /\ cache' = set(cache, req[r].criteria, NoPayload, now)
    /\ UNCHANGED cacheFile
    /\ UNCHANGED <<spaceVars, normVars, batchVars, envVars>>

\* getResults on a miss, scrapeResults threw: the error goes to the route handler
ScrapeFails(r) ==
    /\ ~InSyncSection
    /\ req[r].pc = "scraping"
    /\ req' = [req EXCEPT ![r].pc = "failed"]
    /\ UNCHANGED <<cache, cacheFile>>
    /\ UNCHANGED <<spaceVars, normVars, batchVars, envVars>>

\* CacheManager.clear (DELETE /api/cache): the Map is emptied, then the file is
\* unlinked if it exists; a failing unlink throws after the Map was emptied
Clear ==
    /\ ~InSyncSection
    /\ cache' = EmptyMap
    /\ \E outcome \in (IF cacheFile.exists THEN ReadOutcomes ELSE {"ok"}) :
          /\ cacheFile' = IF cacheFile.exists /\ outcome = "ok"
                          THEN NoFile(EmptyMap) ELSE cacheFile
          /\ ioFaults' = FaultsLeft(outcome)
    /\ UNCHANGED <<req, now>>
    /\ UNCHANGED <<spaceVars, normVars, batchVars>>

-----------------------------------------------------------------------------
(* SpecRestart: the service is stopped and started again over its cache file *)

\* JSON.parse(JSON.stringify(value)) of a property value: NaN and the infinities
\* are written as null and read back as null
JSONparseOfStringify(v) == IF v.t \in {"NaN", "Infinity"} THEN Null ELSE v

\* JSON.parse of the text saveToFile wrote for a Map
cacheData(content) ==
    [k \in DOMAIN content |->
        [content[k] EXCEPT !.criteria = [f \in DOMAIN @ |-> JSONparseOfStringify(@[f])]]]

\* initializeCache: the entries parsed from the file if it exists; an empty Map
\* when there is no file or it cannot be read or parsed
initializeCache(file, outcome) ==
    IF file.exists /\ file.readable /\ outcome = "ok" THEN cacheData(file.content) ELSE EmptyMap

\* a body whose income is the word any: parseInt gives NaN for minIncome
ReqIncomeAny == [EmptyCriteria EXCEPT !["income"] = Str(sAny)]
RestartSamples == {ReqAge30, ReqIncomeAny}

\* the process ends and node server.js is started again: new CacheManager() loads
\* the file; the requests that were being served are lost
Restart ==
    /\ \E outcome \in ReadOutcomes :
          /\ cache' = initializeCache(cacheFile, outcome)
          /\ ioFaults' = FaultsLeft(outcome)
    /\ req' = [r \in Requests |->
                 IF req[r].pc \in {"hit", "scraping"} THEN [req[r] EXCEPT !.pc = "failed"]
                 ELSE req[r]]
    /\ UNCHANGED <<cacheFile, now>>
    /\ UNCHANGED <<spaceVars, normVars, batchVars>>

-----------------------------------------------------------------------------
(* SpecFetch: scrapeResults step by step, from the miss to the stored result *)

maxRetries == 3

\* the validation of scrapeResults: none of the three fields is present
scrapeNoValidResults(results) ==
    results.probability = "" /\ results.delusionScore = "" /\ results.delusionScoreNumber = ""

\* page.goto throws (navigation error or its 45 s timeout): retryCount++, and the
\* loop throws when retryCount has reached maxRetries, else waits 3 s and goes on
GotoFails(r) ==
    /\ ~InSyncSection
    /\ req[r].pc = "scraping"
    /\ req' = [req EXCEPT ![r].retryCount = @ + 1,
                          ![r].pc = IF req[r].retryCount + 1 >= maxRetries
                                    THEN "failed" ELSE "scraping"]
    /\ UNCHANGED <<cache, cacheFile>>
    /\ UNCHANGED <<spaceVars, normVars, batchVars, envVars>>

\* page.goto returns: navigationSuccess = true, the loop is left
GotoSucceeds(r) ==
    /\ ~InSyncSection
    /\ req[r].pc = "scraping"
    /\ req' = [req EXCEPT ![r].pc = "loaded"]
    /\ UNCHANGED <<cache, cacheFile>>
    /\ UNCHANGED <<spaceVars, normVars, batchVars, envVars>>

\* page.evaluate returned none of the three fields: the validation throws, the
\* catch block of scrapeResults rethrows and getResults fails
ExtractFails(r, results) ==
    /\ ~InSyncSection
    /\ req[r].pc = "loaded"
    /\ scrapeNoValidResults(results)
    /\ req' = [req EXCEPT ![r].pc = "failed"]
    /\ UNCHANGED <<cache, cacheFile>>
    /\ UNCHANGED <<spaceVars, normVars, batchVars, envVars>>

\* page.evaluate returned a valid result: scrapeResults returns it and getResults
\* stores it with cacheManager.set
ExtractSucceeds(r, results) ==
    /\ ~InSyncSection
    /\ req[r].pc = "loaded"
    /\ ~scrapeNoValidResults(results)
    /\ \E outcome \in WriteOutcomes :
          /\ cache' = set(cache, req[r].criteria, results, now)
          /\ cacheFile' = saveToFile(cache', cacheFile, outcome)
          /\ ioFaults' = FaultsLeft(outcome)
    /\ now' = now + 1
    /\ req' = [req EXCEPT ![r].pc = "done",
                          ![r].result = [Miss EXCEPT !.data = results,
                                                     !.cacheKey = generateKey(req[r].criteria)]]
    /\ UNCHANGED <<spaceVars, normVars, batchVars>>

-----------------------------------------------------------------------------
(* SpecBatch: the harvester, startCaching and scrapeWithRetry (cache-system.js) *)

IdleRun ==
    [ existingResults |-> EmptyMap, processedCount |-> 0, successCount |-> 0,
      errorCount |-> 0, startTime |-> Never, i |-> 0, j |-> 0, attempt |-> 0, calls |-> 0 ]

BatchOff ==
    /\ progressFile = NoFile(InitialProgress)
    /\ resultsFile = NoFile(EmptyMap)
    /\ errorLogFile = NoFile(<<>>)
    /\ pc = "stopped"
    /\ run = IdleRun
    /\ runs = 0
    /\ fetched = {}
    /\ unthrottled = FALSE

Running == pc \notin {"stopped", "completed", "failed"}

\* the combination the inner loop is at: combinations[i + j], counted from 0
Current == combinations[run.i + run.j + 1]
\* batch = combinations.slice(i, Math.min(i + batchSize, combinations.length))
BatchLength == IF run.i + batchSize < Len(combinations)
               THEN batchSize ELSE Len(combinations) - run.i
IsLastOfBatch == run.j + 1 = BatchLength

\* where control goes when the inner loop has run off the end of the batch
AfterBatch == IF run.i + batchSize < Len(combinations) THEN "batchDelay" ELSE "completed"

\* every run starts at the first combination: let startIndex = 0
startIndexZero(progress) == 0 * progress.currentIndex

\* let startIndex = progress.currentIndex || 0
startIndex(progress) == progress.currentIndex

\* the file operation of startCaching's prologue that the environment makes fail
StartFaults ==
    {"none"} \cup (IF ioFaults > 0 THEN {"initialize", "loadProgress", "loadResults"} ELSE {})

\* startCaching up to the loop: initialize() creates the files that are missing
\* and throws if it cannot; then the combinations are generated and progress and
\* results are loaded.  A progress file that cannot be read or parsed loads as
\* null, and the first use of it (progress.totalCombinations = ...) throws; a
\* results file that cannot be read or parsed loads as {}.
StartCaching ==
    /\ ~Running
    /\ runs < MaxRuns
    /\ runs' = runs + 1
    /\ LET missing == ~progressFile.exists \/ ~resultsFile.exists \/ ~errorLogFile.exists
           pf == IF progressFile.exists THEN progressFile ELSE File(InitialProgress)
           rf == IF resultsFile.exists THEN resultsFile ELSE File(EmptyMap)
           ef == IF errorLogFile.exists THEN errorLogFile ELSE File(<<>>)
       IN \E fault \in StartFaults :
            /\ fault = "initialize" => missing
            /\ ioFaults' = IF fault = "none" THEN ioFaults ELSE ioFaults - 1
            /\ IF fault = "initialize"
               THEN /\ pc' = "failed"
                    /\ run' = IdleRun
                    /\ UNCHANGED <<progressFile, resultsFile, errorLogFile>>
               ELSE LET loaded == loadProgress(pf, IF fault = "loadProgress" THEN "fails" ELSE "ok")
                        progress == loaded.value
                        existingResults ==
                            loadResults(rf, IF fault = "loadResults" THEN "fails" ELSE "ok")
                    IN /\ progressFile' = pf
                       /\ resultsFile' = rf
                       /\ errorLogFile' = ef
                       /\ IF loaded.isNull
                          THEN pc' = "failed" /\ run' = IdleRun
                          ELSE /\ run' = [ existingResults |-> existingResults,
                                           processedCount |-> progress.processed,
                                           successCount |-> progress.successes,
                                           errorCount |-> progress.errors,
                                           startTime |-> IF progress.currentIndex = 0
                                                         THEN now ELSE progress.startTime,
                                           i |-> startIndex(progress), j |-> 0,
                                           attempt |-> 0, calls |-> 0 ]
                               /\ pc' = IF startIndex(progress) < Len(combinations)
                                        THEN "item" ELSE "completed"
    /\ unthrottled' = FALSE
    /\ UNCHANGED <<spaceVars, normVars, cacheVars, now, fetched>>

\* the skip that counts the combination as a success but not as processed
SkipCachedUncounted ==
    /\ pc = "item"
    /\ Current.id \in DOMAIN run.existingResults
    /\ run' = [run EXCEPT !.successCount = @ + 1,
                          !.j = IF IsLastOfBatch THEN @ ELSE @ + 1]
    /\ pc' = IF IsLastOfBatch THEN AfterBatch ELSE "item"
    /\ UNCHANGED <<progressFile, resultsFile, errorLogFile, runs, fetched, unthrottled>>
    /\ UNCHANGED <<spaceVars, normVars, cacheVars, envVars>>

\* the inner loop finds the combination's id in existingResults: it is counted
\* and the loop continues with the next combination
SkipCached ==
    /\ pc = "item"
    /\ Current.id \in DOMAIN run.existingResults
    /\ run' = [run EXCEPT !.processedCount = @ + 1, !.successCount = @ + 1,
                          !.j = IF IsLastOfBatch THEN @ ELSE @ + 1]
    /\ pc' = IF IsLastOfBatch THEN AfterBatch ELSE "item"
    /\ UNCHANGED <<progressFile, resultsFile, errorLogFile, runs, fetched, unthrottled>>
    /\ UNCHANGED <<spaceVars, normVars, cacheVars, envVars>>

\* one more extractor attempt is counted; the count stops one above retryAttempts
CountCall(calls) == IF calls > retryAttempts THEN calls ELSE calls + 1

\* what page.evaluate may return in an attempt: the three fields, or an object
\* without any of them (an attempt that throws before it is modelled as the latter)
Extracted == Payloads \cup {NoPayload}

\* the inner loop calls scrapeWithRetry(browser, combination) with attempt = 1
BeginScrape ==
    /\ pc = "item"
    /\ Current.id \notin DOMAIN run.existingResults
    /\ run' = [run EXCEPT !.attempt = 1, !.calls = 0]
    /\ pc' = "attempt"
    /\ UNCHANGED <<progressFile, resultsFile, errorLogFile, runs, fetched, unthrottled>>
    /\ UNCHANGED <<spaceVars, normVars, cacheVars, envVars>>

\* one attempt of scrapeWithRetry extracts valid results: it returns them, and
\* startCaching stores them in existingResults and counts a success
AttemptSucceeds(results) ==
    /\ pc = "attempt"
    /\ ~NoValidResults(results)
    /\ run' = [run EXCEPT
                 !.calls = CountCall(@),
                 !.existingResults =
                     [id \in DOMAIN @ \cup {Current.id} |->
                        IF id = Current.id
                        THEN ScrapeResult(results, now, Current.params) ELSE @[id]],
                 !.successCount = @ + 1]
    /\ fetched' = fetched \cup {Current.id}
    /\ pc' = "saveResults"
    /\ unthrottled' = TRUE
    /\ UNCHANGED <<progressFile, resultsFile, errorLogFile, runs>>
    /\ UNCHANGED <<spaceVars, normVars, cacheVars, envVars>>

\* one attempt of scrapeWithRetry throws (navigation, timeout) or extracts none of
\* the three fields: the catch block retries after a delay or goes on to logError
AttemptFails(results) ==
    /\ pc = "attempt"
    /\ NoValidResults(results)
    /\ run' = [run EXCEPT !.calls = CountCall(@)]
    /\ pc' = IF MayRetry(run.attempt) THEN "retryDelay" ELSE "logError"
    /\ unthrottled' = TRUE
    /\ UNCHANGED <<progressFile, resultsFile, errorLogFile, runs, fetched>>
    /\ UNCHANGED <<spaceVars, normVars, cacheVars, envVars>>

\* the 5 s wait is over and the call is repeated with the same attempt number:
\* scrapeWithRetry(browser, combination, attempt)
RetryDelaySameAttempt ==
    /\ pc = "retryDelay"
    /\ pc' = "attempt"
    /\ unthrottled' = FALSE
    /\ UNCHANGED <<progressFile, resultsFile, errorLogFile, run, runs, fetched>>
    /\ UNCHANGED <<spaceVars, normVars, cacheVars, envVars>>

\* the 5 s wait is over and the retry is made for the next combination of the batch
RetryDelayNextItem ==
    /\ pc = "retryDelay"
    /\ run' = [run EXCEPT !.attempt = @ + 1, !.j = @ + 1]
    /\ pc' = "attempt"
    /\ unthrottled' = FALSE
    /\ UNCHANGED <<progressFile, resultsFile, errorLogFile, runs, fetched>>
    /\ UNCHANGED <<spaceVars, normVars, cacheVars, envVars>>

\* the 5 s wait is over: scrapeWithRetry(browser, combination, attempt + 1)
RetryDelayElapses ==
    /\ pc = "retryDelay"
    /\ run' = [run EXCEPT !.attempt = @ + 1]
    /\ pc' = "attempt"
    /\ unthrottled' = FALSE
    /\ UNCHANGED <<progressFile, resultsFile, errorLogFile, runs, fetched>>
    /\ UNCHANGED <<spaceVars, normVars, cacheVars, envVars>>

\* the record logError pushes
ErrorRecord(combination, t) ==
    [timestamp |-> t, combination |-> combination, error |-> "scrape failed"]

\* logError followed by a rethrow that no catch block of the loop stops: the
\* failure of one combination ends the run
LogErrorAborts ==
    /\ pc = "logError"
    /\ \E rd \in ReadOutcomes : \E wr \in (IF rd = "ok" THEN WriteOutcomes ELSE {"ok"}) :
          /\ errorLogFile' =
                WriteFile(errorLogFile,
                          Append(loadErrors(errorLogFile, rd), ErrorRecord(Current, now)), wr)
          /\ ioFaults' = IF rd = "ok" THEN FaultsLeft(wr) ELSE FaultsLeft(rd)
    /\ run' = [run EXCEPT !.errorCount = @ + 1]
    /\ fetched' = fetched \ {Current.id}
    /\ pc' = "failed"
    /\ UNCHANGED <<progressFile, resultsFile, runs, now, unthrottled>>
    /\ UNCHANGED <<spaceVars, normVars, cacheVars>>

\* the last attempt failed: logError reads the log, appends a record and writes it
\* back, dropping any failure of its own; the error is rethrown, and the catch
\* block of startCaching counts it
LogError ==
    /\ pc = "logError"
    /\ \E rd \in ReadOutcomes : \E wr \in (IF rd = "ok" THEN WriteOutcomes ELSE {"ok"}) :
          /\ errorLogFile' =
                WriteFile(errorLogFile,
                          Append(loadErrors(errorLogFile, rd), ErrorRecord(Current, now)), wr)
          /\ ioFaults' = IF rd = "ok" THEN FaultsLeft(wr) ELSE FaultsLeft(rd)
    /\ run' = [run EXCEPT !.errorCount = @ + 1, !.processedCount = @ + 1]
    /\ fetched' = fetched \ {Current.id}
    /\ pc' = "saveProgress"
    /\ UNCHANGED <<progressFile, resultsFile, runs, now, unthrottled>>
    /\ UNCHANGED <<spaceVars, normVars, cacheVars>>

\* saveResults(existingResults) after a successful scrape; a failure of the write
\* is caught by the same catch block and counted as an error
SaveResults ==
    /\ pc = "saveResults"
    /\ \E outcome \in WriteOutcomes :
          /\ resultsFile' = WriteFile(resultsFile, run.existingResults, outcome)
          /\ ioFaults' = FaultsLeft(outcome)
          /\ run' = [run EXCEPT !.errorCount = IF outcome = "ok" THEN @ ELSE @ + 1,
                                !.processedCount = @ + 1]
    /\ pc' = "saveProgress"
    /\ UNCHANGED <<progressFile, errorLogFile, runs, fetched, now, unthrottled>>
    /\ UNCHANGED <<spaceVars, normVars, cacheVars>>

\* the progress object with the index of the batch's first item in place of the
\* item's own: currentIndex: i + 1
currentProgressOfBatch ==
    [ totalCombinations |-> Len(combinations), processed |-> run.processedCount,
      currentIndex |-> run.i + 1, startTime |-> run.startTime,
      lastProcessedAt |-> now, errors |-> run.errorCount, successes |-> run.successCount ]

\* the progress object startCaching builds after an item
currentProgress ==
    [ totalCombinations |-> Len(combinations), processed |-> run.processedCount,
      currentIndex |-> run.i + run.j + 1, startTime |-> run.startTime,
      lastProcessedAt |-> now, errors |-> run.errorCount, successes |-> run.successCount ]

\* saveProgress(currentProgress) with the loop going straight on to the next
\* combination of the batch, the delay between requests left out
SaveProgressNoDelay ==
    /\ pc = "saveProgress"
    /\ \E outcome \in WriteOutcomes :
          /\ progressFile' = WriteFile(progressFile, currentProgress, outcome)
          /\ ioFaults' = FaultsLeft(outcome)
          /\ pc' = IF outcome # "ok" THEN "failed"
                   ELSE IF IsLastOfBatch THEN AfterBatch ELSE "item"
          /\ run' = IF outcome = "ok" /\ ~IsLastOfBatch THEN [run EXCEPT !.j = @ + 1] ELSE run
    /\ UNCHANGED <<resultsFile, errorLogFile, runs, fetched, now, unthrottled>>
    /\ UNCHANGED <<spaceVars, normVars, cacheVars>>

\* saveProgress(currentProgress); a failure of the write leaves the loop and ends
\* the run
SaveProgress ==
    /\ pc = "saveProgress"
    /\ \E outcome \in WriteOutcomes :
          /\ progressFile' = WriteFile(progressFile, currentProgress, outcome)
          /\ ioFaults' = FaultsLeft(outcome)
          /\ pc' = IF outcome # "ok" THEN "failed"
                   ELSE IF IsLastOfBatch THEN AfterBatch ELSE "itemDelay"
    /\ UNCHANGED <<resultsFile, errorLogFile, run, runs, fetched, now, unthrottled>>
    /\ UNCHANGED <<spaceVars, normVars, cacheVars>>

\* the delay between two requests of a batch is over
ItemDelayElapses ==
    /\ pc = "itemDelay"
    /\ run' = [run EXCEPT !.j = @ + 1]
    /\ pc' = "item"
    /\ unthrottled' = FALSE
    /\ UNCHANGED <<progressFile, resultsFile, errorLogFile, runs, fetched>>
    /\ UNCHANGED <<spaceVars, normVars, cacheVars, envVars>>

\* the 10 s wait between two batches is over: i += batchSize
BatchDelayElapses ==
    /\ pc = "batchDelay"
    /\ run' = [run EXCEPT !.i = @ + batchSize, !.j = 0]
    /\ pc' = "item"
    /\ unthrottled' = FALSE
    /\ UNCHANGED <<progressFile, resultsFile, errorLogFile, runs, fetched>>
    /\ UNCHANGED <<spaceVars, normVars, cacheVars, envVars>>

\* the process is terminated: its memory is lost, the files stay
Crash ==
    /\ Running
    /\ pc' = "stopped"
    /\ run' = IdleRun
    /\ unthrottled' = FALSE
    /\ UNCHANGED <<progressFile, resultsFile, errorLogFile, runs, fetched>>
    /\ UNCHANGED <<spaceVars, normVars, cacheVars, envVars>>

-----------------------------------------------------------------------------
(* SpecSpace: generateAllCombinations over configured grids (cache-system.js) *)

RECURSIVE Grids(_, _)
\* the grids of at most n values taken from a set, each value at most once, in
\* every order
Grids(values, n) ==
    IF n = 0 THEN {<<>>}
    ELSE LET shorter == Grids(values, n - 1)
         IN shorter \cup
            UNION { { Append(g, v) : v \in values \ { g[i] : i \in 1..Len(g) } } : g \in shorter }

\* the values a grid of each parameter may be configured with
GridValues ==
    [ minAge |-> {18, 22, 25},
      maxAge |-> {22, 25},
      excludeMarried |-> {TRUE, FALSE},
      race |-> {0},
      minHeight |-> {0},
      excludeObese |-> {FALSE},
      minIncome |-> {0, 30000} ]

NotGenerated == [called |-> FALSE, combinations |-> <<>>]

GridsOf(f) == Grids(GridValues[f], MaxGrid)

\* the configurations of this.parameterRanges the model draws from
GridSamples ==
    { [ minAge |-> a, maxAge |-> b, excludeMarried |-> m, race |-> r, minHeight |-> h,
        excludeObese |-> o, minIncome |-> n ] :
        a \in GridsOf("minAge"), b \in GridsOf("maxAge"), m \in GridsOf("excludeMarried"),
        r \in GridsOf("race"), h \in GridsOf("minHeight"), o \in GridsOf("excludeObese"),
        n \in GridsOf("minIncome") }

SpaceInit ==
    /\ grids \in GridSamples
    /\ generated = NotGenerated

SpaceOff ==
    /\ grids = parameterRanges
    /\ generated = NotGenerated

\* const combinations = this.generateAllCombinations()
Generate ==
    /\ generated = NotGenerated
    /\ generated' = [called |-> TRUE, combinations |-> generateAllCombinations(grids)]
    /\ UNCHANGED grids
    /\ UNCHANGED <<normVars, cacheVars, batchVars, envVars>>

-----------------------------------------------------------------------------
(* The specifications *)

EnvInit == now = 0 /\ ioFaults = MaxIOFaults
EnvOff == now = 0 /\ ioFaults = 0

InitSpaceOnly == SpaceInit /\ NormOff /\ CacheOff /\ BatchOff /\ EnvOff
SpecSpace == InitSpaceOnly /\ [][Generate]_vars

InitNormOnly == SpaceOff /\ InitNorm /\ CacheOff /\ BatchOff /\ EnvOff
SpecNorm == InitNormOnly /\ [][NextNorm]_vars

Init == SpaceOff /\ NormOff /\ CacheOff /\ BatchOff /\ EnvInit

Next ==
    \/ \E r \in Requests : \E c \in RequestSamples : Get(r, c)
    \/ \E r \in Requests : UpdateAccess(r)
    \/ \E r \in Requests : \E results \in Payloads : ScrapeSucceeds(r, results)
    \/ \E r \in Requests : ScrapeFails(r)
    \/ Clear

Spec == Init /\ [][Next]_vars

NextBatch ==
    \/ StartCaching
    \/ SkipCached
    \/ BeginScrape
    \/ \E results \in Extracted : AttemptSucceeds(results)
    \/ \E results \in Extracted : AttemptFails(results)
    \/ RetryDelayElapses
    \/ LogError
    \/ SaveResults
    \/ SaveProgress
    \/ ItemDelayElapses
    \/ BatchDelayElapses
    \/ Crash

NextRestart ==
    \/ \E r \in Requests : \E c \in RestartSamples : Get(r, c)
    \/ \E r \in Requests : UpdateAccess(r)
    \/ \E r \in Requests : \E results \in Payloads : ScrapeSucceeds(r, results)
    \/ \E r \in Requests : ScrapeFails(r)
    \/ Restart

SpecRestart == Init /\ [][NextRestart]_vars

NextFetch ==
    \/ \E r \in Requests : \E c \in RequestSamples : Get(r, c)
    \/ \E r \in Requests : UpdateAccess(r)
    \/ \E r \in Requests : GotoFails(r)
    \/ \E r \in Requests : GotoSucceeds(r)
    \/ \E r \in Requests : \E results \in Payloads \cup {NoPayload} : ExtractFails(r, results)
    \/ \E r \in Requests : \E results \in Payloads \cup {NoPayload} : ExtractSucceeds(r, results)

SpecFetch == Init /\ [][NextFetch]_vars

SpecBatch == Init /\ [][NextBatch]_vars

\* The harvester in a process that is not terminated from outside, under the
\* scheduling of Node.js: the synchronous steps of the loop run on, every write
\* settles, every extractor attempt ends (with a result or a failure) and every
\* timer fires.  Nothing obliges startCaching to be invoked again.
NextBatchLive ==
    \/ StartCaching
    \/ SkipCached
    \/ BeginScrape
    \/ \E results \in Extracted : AttemptSucceeds(results)
    \/ \E results \in Extracted : AttemptFails(results)
    \/ RetryDelayElapses
    \/ LogError
    \/ SaveResults
    \/ SaveProgress
    \/ ItemDelayElapses
    \/ BatchDelayElapses

BatchFairness ==
    /\ WF_vars(SkipCached)
    /\ WF_vars(BeginScrape)
    /\ WF_vars(\E results \in Extracted : AttemptSucceeds(results) \/ AttemptFails(results))
    /\ WF_vars(RetryDelayElapses)
    /\ WF_vars(LogError)
    /\ WF_vars(SaveResults)
    /\ WF_vars(SaveProgress)
    /\ WF_vars(ItemDelayElapses)
    /\ WF_vars(BatchDelayElapses)

SpecBatchLive == Init /\ [][NextBatchLive]_vars /\ BatchFairness

\* The harvester and the on-demand service on one cache directory.  The two are
\* separate processes (node cache-system.js start, node server.js); the requests
\* taken here arrive when the harvester has completed a run and ask for the criteria of a
\* combination whose result is in results.json; the harvester is not started
\* again once the service has taken a request, and no file operation fails.
CriteriaOf(params) ==
    AsCriteria([ minAge |-> Whole(params.minAge), maxAge |-> Whole(params.maxAge),
                 excludeMarried |-> Bool(params.excludeMarried), race |-> Whole(params.race),
                 minHeight |-> Whole(params.minHeight),
                 excludeObese |-> Bool(params.excludeObese),
                 minIncome |-> Whole(params.minIncome) ])

LookupHarvested(r, i) ==
    /\ pc = "completed"
    /\ combinations[i].id \in DOMAIN resultsFile.content
    /\ Get(r, CriteriaOf(combinations[i].params))

NoRequestYet == \A r \in Requests : req[r].pc = "idle"

NextShared ==
    \/ NoRequestYet /\ NextBatchLive
    \/ \E r \in Requests : \E i \in DOMAIN combinations : LookupHarvested(r, i)
    \/ \E r \in Requests : UpdateAccess(r)
    \/ \E r \in Requests : \E results \in Payloads : ScrapeSucceeds(r, results)
    \/ \E r \in Requests : ScrapeFails(r)

InitShared == SpaceOff /\ NormOff /\ CacheOff /\ BatchOff /\ EnvOff
SpecShared == InitShared /\ [][NextShared]_vars

-----------------------------------------------------------------------------
(* Claims about normalisation and key generation (SpecNorm) *)

\* C1: two request bodies that differ only in surface representation (race by
\* name or by numeric code, a height of "any" or 0, a number or its numeral)
\* get the same cache key.
EquivalentInputsShareKey ==
    phase = "respelled" => variantKey = cacheKey

\* the value is one of the four race names in some mix of upper and lower case
IsRaceSpelling(v) == v.t = "string" /\ toLowerCase(v.s) \in RaceNames

\* C2: race normalisation ignores case: every spelling of any, white, black and
\* asian gets the code of the lower-case name, and a value that matches no name
\* and no code 0..3 gets 0.
RaceCaseInsensitive ==
    phase = "normalized" =>
        /\ IsRaceSpelling(criteria.race) =>
              normalized.race = normalizeRace(Str(toLowerCase(criteria.race.s)))
        /\ (~IsRaceSpelling(criteria.race) /\ criteria.race \notin UNION RaceSynonyms) =>
              normalized.race = Whole(0)

\* C3: normalisation is idempotent: normalising the normalized object gives the
\* same seven values.
NormalizeIdempotent ==
    phase = "renormalized" => renormalized = normalized

IsWholeNumber(v) == v.t = "number" /\ v.n % 10 = 0
\* a number, or the numeral of one, with an integer value
IsWholeNumeric(v) ==
    \/ IsWholeNumber(v)
    \/ IsNumeral(v) /\ IsWholeNumber(parseFloat(v))
IsNonNumeric(v) == v.t # "number" /\ ~IsNumeral(v)
\* what the claim says an integer field is, given the raw value and the default
IntegerFieldOk(raw, result, default) ==
    /\ IsWholeNumber(result)
    /\ IsWholeNumeric(raw) => result = parseFloat(raw)
    /\ IsNonNumeric(raw) => result = Whole(default)

\* C4: minAge, maxAge and minIncome are always integers: the default (25, 35, 0)
\* for a missing or non-numeric value, the value itself for a numeric one (0
\* included); and all seven fields hold a valid value.
IntegerFieldsDefaulted ==
    phase = "normalized" =>
        /\ IntegerFieldOk(criteria.minAge, normalized.minAge, 25)
        /\ IntegerFieldOk(criteria.maxAge, normalized.maxAge, 35)
        /\ criteria.minIncome = Undefined =>
              IntegerFieldOk(criteria.income, normalized.minIncome, 0)
        /\ criteria.income = Undefined =>
              IntegerFieldOk(criteria.minIncome, normalized.minIncome, 0)
        /\ IsWholeNumber(normalized.minIncome)
        /\ normalized.excludeMarried.t = "boolean"
        /\ normalized.excludeObese.t = "boolean"
        /\ normalized.race \in {Whole(0), Whole(1), Whole(2), Whole(3)}
        /\ normalized.minHeight.t = "number"

\* C5: the key is a function of the seven normalized values and of nothing else:
\* two requests get the same key exactly when their normalized criteria are equal.
KeyIdentifiesNormalized ==
    phase \in {"respelled", "altered"} =>
        ((getNormalizedCriteria(variant) = normalized) <=> (variantKey = cacheKey))

-----------------------------------------------------------------------------
(* Claims about the cache store and the on-demand path (Spec) *)

\* the request's step from waiting for the scrape to done: set was called
Stored(r) == req[r].pc = "scraping" /\ req'[r].pc = "done"
\* the request's step from hit to done: updateAccess was called
Touched(r) == req[r].pc = "hit" /\ req'[r].pc = "done"
\* the request's step out of idle: get was called
LookedUp(r) == req[r].pc = "idle" /\ req'[r].pc # "idle"

\* C6: cache round trip: right after set(c, payload), get(c) returns the fields
\* of payload; each updateAccess(c) on an existing entry raises its stored
\* accessCount by exactly 1 and changes no other entry.
CacheRoundTrip ==
    [][\A r \in Requests :
         LET key == generateKey(req[r].criteria)
         IN /\ Stored(r) =>
                  /\ get(cache', req[r].criteria).hit
                  /\ get(cache', req[r].criteria).data = req'[r].result.data
                  /\ \A k \in DOMAIN cache \ {key} : k \in DOMAIN cache' /\ cache'[k] = cache[k]
            /\ (Touched(r) /\ key \in DOMAIN cache) =>
                  /\ DOMAIN cache' = DOMAIN cache
                  /\ cache'[key].accessCount = cache[key].accessCount + 1
                  /\ cache'[key].data = cache[key].data
                  /\ \A k \in DOMAIN cache \ {key} : cache'[k] = cache[k]]_vars

\* a request was served from the cache and its entry, touched, counts two accesses
\* under the payload the first request stored
TouchedEntry ==
    \E r \in Requests :
        LET key == generateKey(req[r].criteria)
        IN /\ req[r].pc = "done"
           /\ req[r].result.fromCache
           /\ key \in DOMAIN cache
           /\ cache[key].accessCount = 2
           /\ cache[key].data = req[r].result.data

\* C7: the first request for a criteria set is a miss that creates an entry with
\* accessCount = 1, and the identical second request, which finds that entry,
\* returns an envelope with fromCache = true and accessCount = 2.
FirstMissSecondHit ==
    [][\A r \in Requests :
         LET key == generateKey(req[r].criteria)
         IN /\ Stored(r) =>
                  /\ ~req'[r].result.fromCache
                  /\ cache'[key].accessCount = 1
            /\ (Touched(r) /\ key \in DOMAIN cache /\ cache[key].accessCount = 1) =>
                  /\ req'[r].result.fromCache
                  /\ req'[r].result.accessCount = 2]_vars

\* C8: get is a pure lookup: on a hit and on a miss the step that calls it leaves
\* the Map (entries, counts, timestamps) and the cache file as they were.
GetIsPure ==
    [][\A r \in Requests : LookedUp(r) => cache' = cache /\ cacheFile' = cacheFile]_vars

\* a lookup has hit an entry that an earlier lookup had missed
LookupHitAfterMiss ==
    \E r, q \in Requests :
        /\ req[r].pc = "hit"
        /\ req[q].pc = "done"
        /\ ~req[q].result.fromCache
        /\ generateKey(req[r].criteria) \in DOMAIN cache

-----------------------------------------------------------------------------
(* Claims about the harvester's retries and its error log (SpecBatch) *)

\* C9: retry bound: scrapeWithRetry never makes more than retryAttempts extractor
\* attempts for a combination; it retries only while fewer were made, and it gives
\* up (logs the error and throws) after exactly retryAttempts failed attempts.
RetryBound ==
    /\ run.calls <= retryAttempts
    /\ pc = "attempt" => run.calls = run.attempt - 1 /\ run.attempt <= retryAttempts
    /\ pc = "retryDelay" => run.calls = run.attempt /\ run.calls < retryAttempts
    /\ pc = "logError" => run.calls = retryAttempts

\* every attempt for a combination has failed and scrapeWithRetry gives up
AttemptsExhausted == pc = "logError" /\ run.calls = retryAttempts /\ run.attempt = retryAttempts

\* C10: when a fetch exhausts its attempts, exactly one ErrorRecord for that
\* combination is appended to the error log, the failure is counted by the caller
\* and nothing is written to the results file; no other step, a successful fetch
\* included, appends a record.
ExhaustionLogsOneRecord ==
    [][/\ (pc = "logError" /\ pc' = "saveProgress") =>
             /\ errorLogFile'.content =
                    Append(errorLogFile.content, ErrorRecord(Current, now))
             /\ run'.errorCount = run.errorCount + 1
             /\ resultsFile' = resultsFile
             /\ Current.id \notin DOMAIN run'.existingResults
       /\ pc # "logError" => errorLogFile'.content = errorLogFile.content]_vars

-----------------------------------------------------------------------------
(* Claims about the parameter space (SpecSpace) *)

\* the tuples of the cartesian product of the grids with minAge < maxAge
ValidTuples(r) ==
    { t \in [ minAge : { r.minAge[i] : i \in DOMAIN r.minAge },
              maxAge : { r.maxAge[i] : i \in DOMAIN r.maxAge },
              excludeMarried : { r.excludeMarried[i] : i \in DOMAIN r.excludeMarried },
              race : { r.race[i] : i \in DOMAIN r.race },
              minHeight : { r.minHeight[i] : i \in DOMAIN r.minHeight },
              excludeObese : { r.excludeObese[i] : i \in DOMAIN r.excludeObese },
              minIncome : { r.minIncome[i] : i \in DOMAIN r.minIncome } ] :
        t.minAge < t.maxAge }
\* the number of (minAge, maxAge) grid pairs with minAge < maxAge
ValidAgePairs(r) ==
    Cardinality({ p \in (DOMAIN r.minAge) \X (DOMAIN r.maxAge) : r.minAge[p[1]] < r.maxAge[p[2]] })

\* C11: space correctness: generateAllCombinations returns no combination with
\* minAge >= maxAge and every cartesian tuple with minAge < maxAge exactly once;
\* its length is the number of valid age pairs times the sizes of the other grids.
SpaceCorrect ==
    generated.called =>
        /\ \A k \in DOMAIN generated.combinations : generated.combinations[k].params.minAge < generated.combinations[k].params.maxAge
        /\ \A t \in ValidTuples(grids) :
              Cardinality({ k \in DOMAIN generated.combinations : generated.combinations[k].params = t }) = 1
        /\ Len(generated.combinations) =
              ValidAgePairs(grids) * Len(grids.excludeMarried) * Len(grids.race)
                * Len(grids.minHeight) * Len(grids.excludeObese) * Len(grids.minIncome)

\* a space was generated from grids in which some age pairs are dropped and some
\* are kept, with more than one value in an inner grid
SpaceGenerated ==
    /\ generated.called
    /\ Len(generated.combinations) >= 4
    /\ Len(grids.minAge) * Len(grids.maxAge) > ValidAgePairs(grids)
    /\ Len(grids.minIncome) = 2

-----------------------------------------------------------------------------
(* Claims about the harvester's loop, its checkpoint and its files (SpecBatch) *)

\* the index, counted from 0, of the combination the loop is at
CurrentIndex == run.i + run.j
\* the persisted results store and the persisted checkpoint
Store == resultsFile.content
Checkpoint == progressFile.content

\* C12: in every invocation of startCaching a combination whose id is already in
\* the results store triggers no extractor fetch: the step the loop takes on it
\* is not a call of scrapeWithRetry, and it counts the combination as processed
\* and successful.
CachedIsNeverFetched ==
    [][(pc = "item" /\ Current.id \in DOMAIN Store /\ pc' # "stopped") =>
          /\ pc' # "attempt"
          /\ run'.processedCount = run.processedCount + 1
          /\ run'.successCount = run.successCount + 1]_vars

\* C13: an updated checkpoint is persisted after every processed item, skipped
\* items included: whenever the loop stands between two items, the persisted
\* currentIndex is the number of items behind it, so that a termination after k
\* items leaves currentIndex = k.
CheckpointAfterEveryItem ==
    /\ pc = "item" => Checkpoint.currentIndex = CurrentIndex
    /\ pc \in {"itemDelay", "batchDelay"} => Checkpoint.currentIndex = CurrentIndex + 1

\* C14: crash safety: in every reachable state, terminations included, every
\* combination below the persisted currentIndex whose fetch succeeded is in the
\* persisted results store: a result is written before the checkpoint moves past
\* its combination.
CommittedResultsPersisted ==
    \A k \in DOMAIN combinations :
        (k - 1 < Checkpoint.currentIndex /\ combinations[k].id \in fetched) =>
            combinations[k].id \in DOMAIN Store

\* C15: a permanent fetch failure of one combination is isolated: startCaching
\* adds exactly 1 to errorCount and does not abort; it saves the checkpoint and,
\* unless that write fails or the process is terminated, goes on to the next
\* combination, or completes if the failed one was the last.
PermanentFailureIsolated ==
    [][/\ (pc = "logError" /\ pc' # "stopped") =>
             /\ pc' = "saveProgress"
             /\ run'.errorCount = run.errorCount + 1
             /\ CurrentIndex' = CurrentIndex
       /\ (pc = "saveProgress" /\ pc' # "stopped" /\ ioFaults' = ioFaults) =>
             /\ pc' \in {"itemDelay", "batchDelay", "completed"}
             /\ pc' = "completed" <=> CurrentIndex + 1 = Len(combinations)
       /\ (pc \in {"itemDelay", "batchDelay"} /\ pc' # "stopped") =>
             /\ pc' = "item"
             /\ CurrentIndex' = CurrentIndex + 1]_vars

\* the combination before the one being fetched failed for good and was logged
FetchingAfterFailure ==
    /\ pc = "attempt"
    /\ CurrentIndex >= 1
    /\ run.errorCount >= 1
    /\ Len(errorLogFile.content) >= 1
    /\ errorLogFile.content[Len(errorLogFile.content)].combination = combinations[CurrentIndex]

\* C16: a failing write of the results store or of the checkpoint aborts the run
\* and is surfaced: it is not counted as a fetch failure and the loop does not
\* go on to the next combination.
PersistenceFailureAborts ==
    [][(pc \in {"saveResults", "saveProgress"} /\ ioFaults' < ioFaults) =>
          /\ pc' = "failed"
          /\ run'.errorCount = run.errorCount]_vars

-----------------------------------------------------------------------------
(* Claims about the cache file and concurrent requests (Spec) *)

\* C17: a failing write of the cache file during set or updateAccess is surfaced
\* to the caller of the operation: the request that triggered it fails, and never
\* completes as if its entry had been persisted.
CacheWriteFailureSurfaced ==
    [][\A r \in Requests :
          (req[r].pc \in {"scraping", "hit"} /\ req'[r] # req[r] /\ ioFaults' < ioFaults) =>
              req'[r].pc = "failed"]_vars

EntryCreatedOnce ==
    [][req' # req =>
          \A k \in DOMAIN cache :
              /\ k \in DOMAIN cache'
              /\ cache'[k].accessCount >= cache[k].accessCount
              /\ cache'[k].timestamp = cache[k].timestamp]_vars

-----------------------------------------------------------------------------
(* Claims about the harvester's termination (SpecBatchLive) *)

\* C20: startCaching terminates: when every extractor attempt and every delay
\* ends, a run that is started eventually stops running; it stops as failed only
\* after a file operation has failed, and otherwise as completed, with every
\* combination up to the end of the space processed and a processed count equal
\* to the number of combinations.
StartCachingTerminates ==
    /\ [](Running => <>(pc \in {"completed", "failed"}))
    /\ [](pc = "failed" => ioFaults < MaxIOFaults)
    /\ [](pc = "completed" =>
             /\ run.processedCount = Len(combinations)
             /\ CurrentIndex \in {Len(combinations) - 1, Len(combinations)})

\* a run has completed after fetching some combinations and failing on others
CompletedRun ==
    /\ pc = "completed"
    /\ run.processedCount = Len(combinations)
    /\ run.successCount >= 1
    /\ run.errorCount >= 1

\* the normalized criteria written as query-string values, the way the extractor
\* writes its parameters
AsParams(n) ==
    [f \in ParamNames |-> IF f = "minHeight" THEN toFixed2(n[f]) ELSE toString(n[f])]

\* C21: for every raw request body, the parameters the on-demand path hands to the
\* extractor are the normalized criteria of that body
ExtractorGetsNormalized ==
    phase = "requested" =>
        /\ ~urlParams.threw
        /\ urlParams.params = AsParams(getNormalizedCriteria(criteria))

\* C22: a result the harvester stored is visible to the on-demand path: a lookup of
\* the criteria of a combination held in the harvester's store is a cache hit, so
\* no fetch is made for it
HarvestedIsHit ==
    [][\A r \in Requests : \A i \in DOMAIN combinations :
          LookupHarvested(r, i) => req'[r].result.hit]_vars

\* a harvested result none of whose three fields is present
EmptyResult(result) ==
    result.probability = "" /\ result.delusionScore = "" /\ result.delusionScoreNumber = ""

\* C23: a payload with none of the three fields is a failed attempt of
\* scrapeWithRetry: the attempt that extracted it is not a success, it consumes one
\* attempt and is followed by the retry delay while attempts remain (by logError
\* when none does), and such a payload is never returned to the loop or stored
EmptyPayloadIsFailedAttempt ==
    [][/\ ~AttemptSucceeds(NoPayload)
       /\ AttemptFails(NoPayload) =>
             /\ run'.calls = run.calls + 1
             /\ run'.existingResults = run.existingResults
             /\ pc' = IF run.attempt < retryAttempts THEN "retryDelay" ELSE "logError"
       /\ \A id \in DOMAIN run'.existingResults : ~EmptyResult(run'.existingResults[id])
       /\ \A id \in DOMAIN resultsFile'.content : ~EmptyResult(resultsFile'.content[id])]_vars

\* an attempt that extracted no field has failed and its retry is pending
EmptyPayloadRetried ==
    pc = "retryDelay" /\ run.calls = 1 /\ Current.id \notin DOMAIN run.existingResults

\* C24: a miss of the on-demand path is fetched under the bounded retry policy of
\* the harvester: whatever makes an attempt fail (navigation, timeout, empty
\* result), the request fails only when maxRetries attempts have failed
OnDemandFailuresRetried ==
    [][\A r \in Requests :
          req[r].pc # "failed" /\ req'[r].pc = "failed" => req'[r].retryCount >= maxRetries]_vars

\* C25: startCaching invoked with the checkpoint missing or unreadable starts from
\* a fresh checkpoint with currentIndex = 0 and proceeds instead of failing: with
\* progress.json missing (and every file operation succeeding) the run is at the
\* first combination over a persisted checkpoint of index 0, and with all three
\* files in place, where only the reads of startCaching can fail, the run does
\* not end as failed
FreshCheckpointWhenUnusable ==
    [][StartCaching =>
          /\ ~progressFile.exists /\ ioFaults' = ioFaults =>
                /\ pc' = "item" /\ run'.i = 0
                /\ progressFile'.exists /\ progressFile'.content.currentIndex = 0
          /\ progressFile.exists /\ resultsFile.exists /\ errorLogFile.exists =>
                pc' # "failed"]_vars

\* C26: over the checkpoints persisted by one or more runs, resumed runs included,
\* currentIndex strictly increases from each persisted checkpoint to the next and
\* never exceeds totalCombinations: progress.json changes only when initialize()
\* creates it with index 0 or when saveProgress succeeds, and every successful
\* saveProgress writes a larger index than the file held
CheckpointsAdvance ==
    [][/\ SaveProgress /\ ioFaults' = ioFaults =>
             /\ progressFile.exists
             /\ Checkpoint'.currentIndex > Checkpoint.currentIndex
       /\ progressFile' # progressFile =>
             \/ SaveProgress
             \/ StartCaching /\ ~progressFile.exists /\ Checkpoint'.currentIndex = 0
       /\ progressFile'.exists =>
             /\ Checkpoint'.currentIndex <= Len(combinations)
             /\ Checkpoint'.currentIndex > 0 =>
                   Checkpoint'.currentIndex <= Checkpoint'.totalCombinations]_vars

\* a run resumed inside a batch of the first run has persisted its first checkpoint
ResumedRunCheckpointed ==
    runs = 2 /\ run.i = 1 /\ pc = "itemDelay" /\ Checkpoint.currentIndex = 2

\* the position in the space of the combination an error record is about
IndexOf(combination) == CHOOSE k \in 0..(Len(combinations) - 1) : combinations[k + 1] = combination
\* an extractor call for the current combination is under way
Fetching == pc \in {"attempt", "retryDelay", "logError"}

\* C27: a combination that failed for good in an earlier run and lies before the
\* persisted currentIndex is not fetched again by a resumed run: a fetch is only
\* ever started at or after the persisted currentIndex, so no combination with a
\* record in the error log and an index below it is being fetched
FailedBehindCheckpointStaysFailed ==
    [][/\ BeginScrape => CurrentIndex >= Checkpoint.currentIndex
       /\ Fetching' =>
             \A k \in DOMAIN errorLogFile'.content :
                IndexOf(errorLogFile'.content[k].combination) < Checkpoint'.currentIndex
                   => errorLogFile'.content[k].combination # Current']_vars

\* a resumed run fetches while the log holds a failure from before the checkpoint
ResumedPastLoggedFailure ==
    /\ runs = 2 /\ pc = "attempt"
    /\ \E k \in DOMAIN errorLogFile.content :
          IndexOf(errorLogFile.content[k].combination) < Checkpoint.currentIndex

\* C28: the extractor attempts of startCaching are serial and ordered: an attempt
\* starts only when none is in flight; from the first attempt for a combination to
\* the end of its last one (retries and their delays included) the loop stays at
\* that combination; and within a run the loop never goes back to a lower index,
\* so every attempt for index i has finished before one for a higher index starts
AttemptsSerialAndOrdered ==
    [][/\ BeginScrape \/ RetryDelayElapses => pc # "attempt" /\ pc' = "attempt"
       /\ pc' = "attempt" /\ pc # "attempt" => BeginScrape \/ RetryDelayElapses
       /\ Fetching /\ Running' => CurrentIndex' = CurrentIndex
       /\ Fetching' /\ Running => CurrentIndex' = CurrentIndex
       /\ Running /\ Running' => CurrentIndex' >= CurrentIndex]_vars

\* a retry for a combination other than the first is in flight
RetryInFlightLater == pc = "attempt" /\ run.attempt = 2 /\ CurrentIndex = 1

\* C29: throttling: within a run of startCaching a delay elapses between any two
\* consecutive extractor attempts, so an attempt is never in flight while the
\* previous one is still unthrottled: a failed attempt that is retried is followed
\* by the retry delay, and a saved checkpoint is followed by the inter-item delay
\* after a non-last item of the batch and by the inter-batch delay after the last
\* item of every batch but the final one
AttemptsThrottled ==
    [][/\ pc' = "attempt" => ~unthrottled'
       /\ pc = "attempt" /\ pc' = "retryDelay" => unthrottled'
       /\ SaveProgress /\ ioFaults' = ioFaults =>
             pc' = IF ~IsLastOfBatch THEN "itemDelay"
                   ELSE IF run.i + batchSize < Len(combinations) THEN "batchDelay"
                   ELSE "completed"]_vars

\* the first attempt for a combination that follows a fetched one
AttemptAfterItemDelay ==
    /\ pc = "attempt" /\ run.attempt = 1 /\ ~unthrottled
    /\ CurrentIndex > 0 /\ combinations[CurrentIndex].id \in DOMAIN run.existingResults
    /\ combinations[CurrentIndex].id \in DOMAIN Store

\* C30: the error log is append-only: every step that changes errors.json is a
\* logError call, also one whose read of the existing log fails, and leaves every
\* record the file held in place, unmodified and in order, with the new record
\* appended as the last one
ErrorLogAppendOnly ==
    [][errorLogFile'.content # errorLogFile.content =>
          /\ pc = "logError"
          /\ errorLogFile'.content =
                 Append(errorLogFile.content, ErrorRecord(Current, now))]_vars

-----------------------------------------------------------------------------
(* Claims about the order and the ids of the space *)

\* the order the space is said to be enumerated in, outermost parameter first
ClaimedOrder == <<"minAge", "maxAge", "excludeMarried", "race", "minHeight",
                  "excludeObese", "minIncome">>
\* the position in its grid of the value a combination has for a parameter
GridPosition(params, f) == CHOOSE i \in DOMAIN grids[f] : grids[f][i] = params[f]
\* a comes before b in the lexicographic order of the grid positions
LexBefore(a, b) ==
    \E p \in DOMAIN ClaimedOrder :
       /\ \A q \in 1..(p - 1) :
             GridPosition(a, ClaimedOrder[q]) = GridPosition(b, ClaimedOrder[q])
       /\ GridPosition(a, ClaimedOrder[p]) < GridPosition(b, ClaimedOrder[p])

\* C31: generateAllCombinations returns the combinations in one fixed order,
\* lexicographic by grid position with minAge outermost and minIncome innermost:
\* the sequence is strictly increasing in that order, so it is determined by the
\* grids alone and an index denotes the same combination in every call
SpaceOrdered ==
    generated.called =>
        \A k, l \in DOMAIN generated.combinations :
           k < l => LexBefore(generated.combinations[k].params,
                              generated.combinations[l].params)

\* a generated space in which an outer and the innermost loop both have two values
SpaceWithTwoLoops ==
    /\ generated.called
    /\ Len(grids.excludeMarried) = 2 /\ Len(grids.minIncome) = 2
    /\ Len(generated.combinations) >= 4

\* C32: generateCombinationId is injective on the enumerated space: two
\* combinations of the space have the same id exactly when their seven values are
\* equal, and exactly when the fingerprints generateKey gives their criteria are
\* equal
IdsIdentifyCombinations ==
    generated.called =>
        LET space == generated.combinations
            ids == [k \in DOMAIN space |-> generateCombinationId(space[k].params)]
            keys == [k \in DOMAIN space |-> generateKey(CriteriaOf(space[k].params))]
        IN /\ Cardinality({ ids[k] : k \in DOMAIN space }) = Len(space)
           /\ Cardinality({ keys[k] : k \in DOMAIN space }) = Len(space)
           /\ Cardinality({ space[k].params : k \in DOMAIN space }) = Len(space)
           /\ \A k \in DOMAIN space : space[k].id = ids[k]

\* a generated space whose combinations differ in a flag and in an age
SpaceWithFlagsAndAges ==
    /\ generated.called
    /\ Len(grids.excludeMarried) = 2 /\ Len(grids.minAge) = 2
    /\ Len(generated.combinations) >= 4

-----------------------------------------------------------------------------
(* Claims about the entries of the on-demand cache *)

\* C33: set overwrites: the step of a request that stores its result leaves under
\* the request's key an entry with the new payload, accessCount 1 and the time of
\* the call as its timestamp (later than the one of the entry it replaces); on a
\* key that was present the key set is unchanged, on an absent key exactly that
\* key is added; every other entry stays as it was
SetOverwrites ==
    [][\A r \in Requests :
          Stored(r) =>
             LET key == generateKey(req[r].criteria)
             IN /\ key \in DOMAIN cache'
                /\ cache'[key].data = req'[r].result.data
                /\ cache'[key].accessCount = 1
                /\ cache'[key].timestamp = now
                /\ key \in DOMAIN cache =>
                      /\ DOMAIN cache' = DOMAIN cache
                      /\ cache'[key].timestamp > cache[key].timestamp
                /\ key \notin DOMAIN cache =>
                      /\ DOMAIN cache' = DOMAIN cache \cup {key}
                      /\ Cardinality(DOMAIN cache') = Cardinality(DOMAIN cache) + 1
                /\ \A k \in DOMAIN cache \ {key} : cache'[k] = cache[k]]_vars

\* two requests missed on the same key and both stored: the later set found the
\* key present, and the entry holds one payload where the requests got two
KeyStoredTwice ==
    /\ req[1].pc = "done" /\ req[2].pc = "done"
    /\ ~req[1].result.hit /\ ~req[2].result.hit
    /\ req[1].result.cacheKey = req[2].result.cacheKey
    /\ req[1].result.data # req[2].result.data
    /\ DOMAIN cache = {req[1].result.cacheKey}

\* C34: persistence round trip across a restart: when every write of set and
\* updateAccess so far has succeeded, a newly constructed CacheManager that reads
\* the file loads the key set the Map had and, for every key, the same payload,
\* the same criteria and the same accessCount
RestartRoundTrip ==
    [][Restart /\ ioFaults = MaxIOFaults /\ ioFaults' = ioFaults =>
          /\ DOMAIN cache' = DOMAIN cache
          /\ \A k \in DOMAIN cache :
                /\ cache'[k].data = cache[k].data
                /\ cache'[k].criteria = cache[k].criteria
                /\ cache'[k].accessCount = cache[k].accessCount]_vars

\* C35: in every reachable state every entry of the Map, and every entry written
\* to the cache file, has accessCount >= 1
AccessCountPositive ==
    /\ \A k \in DOMAIN cache : cache[k].accessCount >= 1
    /\ \A k \in DOMAIN cacheFile.content : cacheFile.content[k].accessCount >= 1

\* the Map holds two entries, one of them never served from the cache
TwoEntriesOneUntouched ==
    /\ Cardinality(DOMAIN cache) = 2
    /\ \E k \in DOMAIN cache : cache[k].accessCount = 1 /\ cache[k].lastAccessed = Never

-----------------------------------------------------------------------------
(* Claims about the counters of the checkpoint *)

\* C36: in every persisted checkpoint, from the one initialize() writes on and
\* across resumed runs, processed equals currentIndex
ProcessedIsCurrentIndex ==
    progressFile.exists => Checkpoint.processed = Checkpoint.currentIndex

\* a run resumed at index 1 has persisted the checkpoint of its second combination
ResumedRunSecondCheckpoint ==
    /\ runs = 2 /\ run.i = 1 /\ run.j = 1
    /\ pc \in {"itemDelay", "batchDelay", "completed"}
    /\ Checkpoint.currentIndex = 3 /\ Checkpoint.processed = 3

\* C37: in every persisted checkpoint processed equals successes plus errors: each
\* processed combination is counted once, as a success or as an error, also when
\* the write of the results store fails after a successful fetch
ProcessedIsSuccessesPlusErrors ==
    progressFile.exists =>
        Checkpoint.processed = Checkpoint.successes + Checkpoint.errors

-----------------------------------------------------------------------------
(* Claims about the fetches of the on-demand path (Spec) *)

\* the fetch of request r has thrown
FetchFailed(r) == req[r].pc = "scraping" /\ req'[r].pc = "failed"

\* request q has stored the entry under key
StoredBy(q, key) ==
    /\ req[q].pc = "done"
    /\ ~req[q].result.fromCache
    /\ req[q].result.cacheKey = key

\* C38: a request whose fetch fails leaves the cache as it was: the step creates
\* and modifies no entry and no accessCount, in the Map and in the file, a lookup
\* of the same criteria answers after it as before it, and an entry found later
\* under the key of a failed request was stored by another request's fetch
FailedFetchStoresNothing ==
    /\ [][\A r \in Requests :
            FetchFailed(r) =>
               /\ cache' = cache
               /\ cacheFile' = cacheFile
               /\ get(cache', req[r].criteria) = get(cache, req[r].criteria)]_vars
    /\ [](\A r \in Requests :
            (req[r].pc = "failed" /\ generateKey(req[r].criteria) \in DOMAIN cache) =>
               \E q \in Requests \ {r} : StoredBy(q, generateKey(req[r].criteria)))

\* the fetch of the first request has failed and the same criteria, requested
\* again, have missed and are being fetched again; nothing is stored
MissAgainAfterFailedFetch ==
    /\ req[1].pc = "failed"
    /\ req[2].pc = "scraping"
    /\ ~req[2].result.hit
    /\ generateKey(req[2].criteria) = generateKey(req[1].criteria)
    /\ cache = EmptyMap
    /\ ~cacheFile.exists

\* getResults has called scrapeResults for request r: the fetch is awaited, has
\* thrown, or has returned the payload of an envelope that is not from the cache
Invoked(r) ==
    \/ req[r].pc \in {"scraping", "failed"}
    \/ req[r].pc = "done" /\ ~req[r].result.fromCache

\* the lookup of request r has found no entry
ObservedMiss(r) == req[r].pc # "idle" /\ ~req[r].result.hit

\* C39: a request that finds its key in the cache never invokes the extractor: a
\* fetch begins only in the step of a lookup and exactly when that lookup finds
\* no entry, a request that has hit only finishes, and the number of fetches
\* begun equals the number of requests whose lookup missed
ExtractorOnlyOnMiss ==
    /\ [][\A r \in Requests :
            /\ LookedUp(r) =>
                  (req'[r].pc = "scraping" <=> ~get(cache, req'[r].criteria).hit)
            /\ (req[r].pc # "scraping" /\ req'[r].pc = "scraping") => LookedUp(r)
            /\ req[r].pc = "hit" => req'[r].pc \in {"hit", "done"}]_vars
    /\ [](Cardinality({r \in Requests : Invoked(r)})
             = Cardinality({r \in Requests : ObservedMiss(r)}))

\* two requests for one criteria set have been answered with one fetch: the
\* first missed and fetched, the second found the entry and fetched nothing
OneFetchForTwoRequests ==
    /\ req[1].pc = "done" /\ Invoked(1) /\ ObservedMiss(1)
    /\ req[2].pc = "done" /\ ~Invoked(2) /\ ~ObservedMiss(2)
    /\ generateKey(req[2].criteria) = generateKey(req[1].criteria)
    /\ Cardinality({r \in Requests : Invoked(r)}) = 1

====
